---- MODULE Spec2Model ----
(***************************************************************************)
(* A model of rusty_nrrd: the NRRD header reader (reader.rs), the pixel    *)
(* codec (pixel.rs), the typed image and its conversions to and from the   *)
(* on-disk record (image.rs, nrrd/mod.rs), and the writer (nrrd/writer.rs). *)
(*                                                                         *)
(* A byte stream is a sequence of numbers 0..255; text is the sequence of  *)
(* its ASCII codes.  An i32 is a TLC integer (TLC's integers are exactly   *)
(* the i32 range, and TLC stops on overflow instead of wrapping).  A usize *)
(* is held as its 8 bytes, least significant first (see USizeOf).  Pixel   *)
(* values are integers; a float is the integer of its bit pattern.         *)
(*                                                                         *)
(* Specifications: Spec (Image::try_read_nrrd on a byte stream),           *)
(* SpecRequiredFields (the accumulator: parse calls, then validate),       *)
(* SpecCodec (to_bytes, from_bytes), SpecImage (Image::new, get_mut,       *)
(* Nrrd::from, try_from), SpecTryFrom (try_from on declared records),      *)
(* SpecWriter (write_nrrd on a record) and SpecRoundTrip (an image written *)
(* with write_nrrd, then read back with read_nrrd).                        *)
(***************************************************************************)
EXTENDS Integers, Sequences, FiniteSets, TLC

VARIABLES
    input,            \* the argument of the call: the bytes read, the field parsed, the slice decoded
    generic,          \* the type parameters <T, D> of the call
    stream,           \* what the BufReader has not consumed yet
    pc,               \* position of the running call
    version,          \* read_header: version
    fields,           \* read_header: fields (HashSet<Field>)
    key_values,       \* read_header: key_values (HashSet<KeyValue>)
    required_fields,  \* read_header: required_fields (RequiredFields)
    line_num,         \* read_header: line_num
    read_result,      \* what read_nrrd / read_header / validate returned
    image,            \* an Image<T, D>
    nrrd,             \* a Nrrd record
    pixel,            \* pixel codec: the value and its type
    buffer,           \* pixel codec: the byte slice written by to_bytes
    result            \* what the outermost call returned

vars == <<input, generic, stream, pc, version, fields, key_values,
          required_fields, line_num, read_result, image, nrrd, pixel,
          buffer, result>>

-----------------------------------------------------------------------------
(* Text as bytes *)

Digits == "0123456789"
Upper == "ABCDEFGHIJKLMNOPQRSTUVWXYZ"
Lower == "abcdefghijklmnopqrstuvwxyz"

IndexIn(s, c) == CHOOSE i \in 1..Len(s) : SubSeq(s, i, i) = c

HasChar(s, c) == \E i \in 1..Len(s) : SubSeq(s, i, i) = c

\* The ASCII code of a one-character string.
Ord(c) ==
    CASE c = "\n" -> 10
      [] c = "\r" -> 13
      [] c = "\t" -> 9
      [] c = " " -> 32
      [] c = "#" -> 35
      [] c = "+" -> 43
      [] c = "-" -> 45
      [] c = ":" -> 58
      [] c = "=" -> 61
      [] c = "_" -> 95
      [] HasChar(Digits, c) -> 47 + IndexIn(Digits, c)
      [] HasChar(Upper, c) -> 64 + IndexIn(Upper, c)
      [] HasChar(Lower, c) -> 96 + IndexIn(Lower, c)

\* The bytes of an ASCII string literal.
B(s) == [i \in 1..Len(s) |-> Ord(SubSeq(s, i, i))]

\* The string literals of the source, as bytes.
TypeNames ==
    [int8 |-> B("int8"), uint8 |-> B("uint8"), int16 |-> B("int16"),
     uint16 |-> B("uint16"), int32 |-> B("int32"), uint32 |-> B("uint32"),
     int64 |-> B("int64"), uint64 |-> B("uint64"), float |-> B("float"),
     double |-> B("double"), block |-> B("block")]

EncodingNames ==
    [raw |-> B("raw"), ascii |-> B("ascii"), text |-> B("text"), txt |-> B("txt"),
     gzip |-> B("gzip"), gz |-> B("gz"), bzip2 |-> B("bzip2"), bz2 |-> B("bz2")]

EndianNames ==
    [little |-> B("little"), big |-> B("big")]

FieldNames ==
    [dimension |-> B("dimension"), sizes |-> B("sizes"), type |-> B("type"),
     encoding |-> B("encoding"), block_size |-> B("block size"),
     blocksize |-> B("blocksize"), endian |-> B("endian")]

MagicNames ==
    [NRRD0001 |-> B("NRRD0001"), NRRD0002 |-> B("NRRD0002"),
     NRRD0003 |-> B("NRRD0003"), NRRD0004 |-> B("NRRD0004"), NRRD0005 |-> B("NRRD0005")]

S_colon_space == B(": ")
S_colon_equals == B(":=")

NL == 10
CR == 13

\* Rust's char::is_whitespace on ASCII: \t \n \x0B \x0C \r and space.
IsWhitespace(b) == b \in {9, 10, 11, 12, 13, 32}

IsDigit(b) == b >= 48 /\ b <= 57

\* str::ends_with / str::starts_with
EndsWith(s, suffix) ==
    /\ Len(s) >= Len(suffix)
    /\ SubSeq(s, Len(s) - Len(suffix) + 1, Len(s)) = suffix

StartsWith(s, prefix) ==
    /\ Len(s) >= Len(prefix)
    /\ SubSeq(s, 1, Len(prefix)) = prefix

\* Where `delim` first occurs in s (0: nowhere).
FindFirst(s, delim) ==
    LET hits == {i \in 1..(Len(s) - Len(delim) + 1) :
                    SubSeq(s, i, i + Len(delim) - 1) = delim}
    IN IF hits = {} THEN 0 ELSE CHOOSE i \in hits : \A j \in hits : i <= j

\* str::split_once: None, or the text before and after the first delimiter.
SplitOnce(s, delim) ==
    LET at == FindFirst(s, delim)
    IN IF at = 0
       THEN [some |-> FALSE, before |-> <<>>, after |-> <<>>]
       ELSE [some |-> TRUE,
             before |-> SubSeq(s, 1, at - 1),
             after |-> SubSeq(s, at + Len(delim), Len(s))]

\* str::to_lowercase on ASCII text.
ToLowercase(s) ==
    [i \in 1..Len(s) |-> IF s[i] >= 65 /\ s[i] <= 90 THEN s[i] + 32 ELSE s[i]]

\* str::trim_end
RECURSIVE TrimEnd(_)
TrimEnd(s) ==
    IF Len(s) > 0 /\ IsWhitespace(s[Len(s)])
    THEN TrimEnd(SubSeq(s, 1, Len(s) - 1))
    ELSE s

\* str::split_whitespace: the maximal runs of non-whitespace, in order.
RECURSIVE SplitWhitespace(_)
SplitWhitespace(s) ==
    IF Len(s) = 0 THEN <<>>
    ELSE IF IsWhitespace(s[1]) THEN SplitWhitespace(Tail(s))
    ELSE LET stops == {i \in 1..Len(s) : IsWhitespace(s[i])}
             stop == IF stops = {} THEN Len(s) + 1
                     ELSE CHOOSE i \in stops : \A j \in stops : i <= j
         IN <<SubSeq(s, 1, stop - 1)>> \o SplitWhitespace(SubSeq(s, stop, Len(s)))

I32Max == 2147483647
I32Min == -2147483647 - 1

None == [some |-> FALSE]
Some(v) == [some |-> TRUE, v |-> v]

\* The digits of a non-negative number, checked_mul / checked_add at each.
RECURSIVE ParsePositive(_, _)
ParsePositive(ds, acc) ==
    IF Len(ds) = 0 THEN Some(acc)
    ELSE IF ~IsDigit(ds[1]) THEN None
    ELSE LET d == ds[1] - 48
         IN IF acc > (I32Max - d) \div 10 THEN None
            ELSE ParsePositive(Tail(ds), acc * 10 + d)

\* The digits of a negative number, checked_mul / checked_sub at each.
RECURSIVE ParseNegative(_, _)
ParseNegative(ds, acc) ==
    IF Len(ds) = 0 THEN Some(acc)
    ELSE IF ~IsDigit(ds[1]) THEN None
    ELSE LET d == ds[1] - 48
         IN IF acc < -214748364 \/ acc * 10 < I32Min + d THEN None
            ELSE ParseNegative(Tail(ds), acc * 10 - d)

\* <i32 as FromStr>::from_str: an optional sign and at least one digit.
ParseI32(s) ==
    IF Len(s) = 0 THEN None
    ELSE IF s[1] = 43 THEN (IF Len(s) = 1 THEN None ELSE ParsePositive(Tail(s), 0))
    ELSE IF s[1] = 45 THEN (IF Len(s) = 1 THEN None ELSE ParseNegative(Tail(s), 0))
    ELSE ParsePositive(s, 0)

-----------------------------------------------------------------------------
(* The header model: nrrd/mod.rs *)

Nrrd1 == 1
Nrrd2 == 2
Nrrd3 == 3
Nrrd4 == 4
Nrrd5 == 5

ScalarTags == {"Int8", "UInt8", "Int16", "UInt16", "Int32", "UInt32",
               "Int64", "UInt64", "Float32", "Float64"}

\* A PixelType: a scalar variant, or Block(size).
Scalar(tag) == [tag |-> tag, block |-> 0]
Block(size) == [tag |-> "Block", block |-> size]

\* PixelType::size, before the cast of a Block's size to usize.
PixelTypeSize(pt) ==
    CASE pt.tag \in {"Int8", "UInt8"} -> 1
      [] pt.tag \in {"Int16", "UInt16"} -> 2
      [] pt.tag \in {"Int32", "UInt32", "Float32"} -> 4
      [] pt.tag \in {"Int64", "UInt64", "Float64"} -> 8
      [] pt.tag = "Block" -> pt.block

\* <PixelType as ToString>::to_string
PixelTypeToString(pt) ==
    CASE pt.tag = "Int8" -> TypeNames.int8
      [] pt.tag = "UInt8" -> TypeNames.uint8
      [] pt.tag = "Int16" -> TypeNames.int16
      [] pt.tag = "UInt16" -> TypeNames.uint16
      [] pt.tag = "Int32" -> TypeNames.int32
      [] pt.tag = "UInt32" -> TypeNames.uint32
      [] pt.tag = "Int64" -> TypeNames.int64
      [] pt.tag = "UInt64" -> TypeNames.uint64
      [] pt.tag = "Float32" -> TypeNames.float
      [] pt.tag = "Float64" -> TypeNames.double
      [] pt.tag = "Block" -> TypeNames.block

\* An Encoding: Raw, Ascii, GZip, BZip2 or Other(token).
Enc(tag) == [tag |-> tag, other |-> <<>>]
EncOther(token) == [tag |-> "Other", other |-> token]

\* A Field; Hash and PartialEq look at the identifier alone.
Field(identifier, descriptor) ==
    [identifier |-> identifier, descriptor |-> descriptor]

FieldEq(f, g) == f.identifier = g.identifier

\* A KeyValue; Hash and PartialEq look at the key alone.
KeyValue(key, value) == [key |-> key, value |-> value]

KeyValueEq(a, b) == a.key = b.key

\* HashSet<Field>::insert: the set afterwards and the bool it returns, true
\* when the set did not hold an equal value (an equal value is not replaced).
InsertField(set, f) ==
    IF \E g \in set : FieldEq(g, f)
    THEN [set |-> set, newly |-> FALSE]
    ELSE [set |-> set \cup {f}, newly |-> TRUE]

\* HashSet<KeyValue>::insert
InsertKeyValue(set, kv) ==
    IF \E g \in set : KeyValueEq(g, kv) THEN set ELSE set \cup {kv}

-----------------------------------------------------------------------------
(* Results *)

Ok(v) == [ok |-> TRUE, v |-> v]

Err(kind, msg, line, text) ==
    [ok |-> FALSE, kind |-> kind, msg |-> msg, line |-> line, text |-> text,
     cause |-> ""]

\* ReadNrrdErr::Malformed(msg)
Malformed(msg) == Err("Malformed", msg, 0, <<>>)

\* ReadNrrdErr::Malformed("Unexpected line at {line_num}: '{line}'")
UnexpectedLine(n, line) == Err("Malformed", "Unexpected line", n, line)

\* ReadNrrdErr::DuplicateField("Duplicate field '{identifier}' at line {line_num}")
DuplicateField(identifier, n) == Err("DuplicateField", "Duplicate field", n, identifier)

\* ReadNrrdErr::UnknownVersion("Unknown NRRD version: {magic_line}")
UnknownVersion(line) == Err("UnknownVersion", "Unknown NRRD version", 0, line)

\* ReadNrrdErr::IOError(err), from the `?` on read_line
IOError == Err("IOError", "stream did not contain valid UTF-8", 0, <<>>)

\* No call has returned yet.
NoResult == Err("none", "", 0, <<>>)

-----------------------------------------------------------------------------
(* The required-field accumulator: reader.rs, RequiredFields *)

\* RequiredFields::default()
DefaultRequiredFields ==
    [dimension |-> None, sizes |-> None, pixel_type |-> None,
     encoding |-> None, block_size |-> None, endian |-> None]

try_parse_dimension(rf, field) ==
    LET dimension == ParseI32(field.descriptor)
    IN IF ~dimension.some THEN Malformed("Invalid DIMENSION value")
       ELSE Ok([rf EXCEPT !.dimension = Some(dimension.v)])

\* The loop over split_whitespace: every token parsed, the first failure returned.
ParseAllSizes(tokens) ==
    IF \E i \in 1..Len(tokens) : ~ParseI32(tokens[i]).some
    THEN None
    ELSE Some([i \in 1..Len(tokens) |-> ParseI32(tokens[i]).v])

try_parse_sizes(rf, field) ==
    IF ~rf.dimension.some
    THEN Malformed("Per-axis specification before DIMENSION")
    ELSE LET vec == ParseAllSizes(SplitWhitespace(field.descriptor))
         IN IF ~vec.some THEN Malformed("Invalid SIZES value")
            \* vec.len().try_into::<i32>() cannot fail below 2^31 tokens
            ELSE IF Len(vec.v) # rf.dimension.v
                 THEN Malformed("Mismatched DIMENSION and SIZES")
                 ELSE Ok([rf EXCEPT !.sizes = Some(vec.v)])

\* The alias table of try_parse_type.
TypeAliases ==
    {<<B("signed char"), "Int8">>, <<B("int8"), "Int8">>, <<B("int8_t"), "Int8">>,
     <<B("uchar"), "UInt8">>, <<B("unsigned char"), "UInt8">>,
     <<B("uint8"), "UInt8">>, <<B("uint8_t"), "UInt8">>,
     <<B("short"), "Int16">>, <<B("short int"), "Int16">>,
     <<B("signed short"), "Int16">>, <<B("signed short int"), "Int16">>,
     <<B("int16"), "Int16">>, <<B("int16_t"), "Int16">>,
     <<B("ushort"), "UInt16">>, <<B("unsigned short"), "UInt16">>,
     <<B("unsigned short int"), "UInt16">>, <<B("uint16"), "UInt16">>,
     <<B("uint16_t"), "UInt16">>,
     <<B("int"), "Int32">>, <<B("signed int"), "Int32">>,
     <<B("int32"), "Int32">>, <<B("int32_t"), "Int32">>,
     <<B("uint"), "UInt32">>, <<B("unsigned int"), "UInt32">>,
     <<B("uint32"), "UInt32">>, <<B("uint32_t"), "UInt32">>,
     <<B("longlong"), "Int64">>, <<B("long long"), "Int64">>,
     <<B("long long int"), "Int64">>, <<B("signed long long"), "Int64">>,
     <<B("signed long long int"), "Int64">>, <<B("int64"), "Int64">>,
     <<B("int64_t"), "Int64">>,
     <<B("ulonglong"), "UInt64">>, <<B("unsigned long long"), "UInt64">>,
     <<B("unsigned long long int"), "UInt64">>, <<B("uint64"), "UInt64">>,
     <<B("uint64_t"), "UInt64">>,
     <<B("float"), "Float32">>, <<B("double"), "Float64">>,
     <<B("block"), "Block">>}

try_parse_type(rf, field) ==
    LET hits == {a \in TypeAliases : a[1] = field.descriptor}
    IN IF hits = {} THEN Malformed("Invalid TYPE value")
       ELSE LET tag == (CHOOSE a \in hits : TRUE)[2]
            IN Ok([rf EXCEPT !.pixel_type =
                      Some(IF tag = "Block" THEN Block(0) ELSE Scalar(tag))])

try_parse_encoding(rf, field) ==
    LET d == field.descriptor
        encoding ==
            CASE d = EncodingNames.raw -> Enc("Raw")
              [] d \in {EncodingNames.ascii, EncodingNames.text, EncodingNames.txt} -> Enc("Ascii")
              [] d \in {EncodingNames.gzip, EncodingNames.gz} -> Enc("GZip")
              [] d \in {EncodingNames.bzip2, EncodingNames.bz2} -> Enc("BZip2")
              [] OTHER -> EncOther(d)
    IN Ok([rf EXCEPT !.encoding = Some(encoding)])

try_parse_block_size(rf, field) ==
    LET block_size == ParseI32(field.descriptor)
    IN IF ~block_size.some THEN Malformed("Invalid BLOCK SIZE value")
       ELSE Ok([rf EXCEPT !.block_size = Some(block_size.v)])

try_parse_endian(rf, field) ==
    CASE field.descriptor = EndianNames.little -> Ok([rf EXCEPT !.endian = Some("Little")])
      [] field.descriptor = EndianNames.big -> Ok([rf EXCEPT !.endian = Some("Big")])
      [] OTHER -> Malformed("Invalid ENDIAN value")

\* RequiredFields::parse
RequiredFieldsParse(rf, field) ==
    CASE field.identifier = FieldNames.dimension -> try_parse_dimension(rf, field)
      [] field.identifier = FieldNames.sizes -> try_parse_sizes(rf, field)
      [] field.identifier = FieldNames.type -> try_parse_type(rf, field)
      [] field.identifier = FieldNames.encoding -> try_parse_encoding(rf, field)
      [] field.identifier \in {FieldNames.block_size, FieldNames.blocksize} ->
            try_parse_block_size(rf, field)
      [] field.identifier = FieldNames.endian -> try_parse_endian(rf, field)
      [] OTHER -> Ok(rf)

\* An endian arm that lets every accumulator through.
EndianCheckAlwaysPasses(rf) == TRUE

\* The endian arm of validate (reader.rs 278-284): the match lets through
\* only (None, Int8) and (None, UInt8); every other pair is the `_` arm.
EndianCheckPasses(rf) ==
    /\ ~rf.endian.some
    /\ rf.pixel_type.v.tag \in {"Int8", "UInt8"}

\* RequiredFields::validate
RequiredFieldsValidate(rf) ==
    IF ~rf.dimension.some THEN Malformed("Missing DIMENSION field")
    ELSE IF ~rf.sizes.some THEN Malformed("Missing SIZES field")
    ELSE IF ~rf.pixel_type.some THEN Malformed("Missing TYPE field")
    ELSE IF rf.pixel_type.v.tag = "Block" /\ ~rf.block_size.some
         THEN Malformed("Missing BLOCK SIZE field")
    ELSE IF rf.pixel_type.v.tag = "Block" /\ rf.block_size.v <= 0
         THEN Malformed("Invalid BLOCK SIZE value")
    ELSE IF rf.pixel_type.v.tag # "Block" /\ ~EndianCheckPasses(rf)
         THEN Malformed("Missing ENDIAN field")
    ELSE IF ~rf.encoding.some THEN Malformed("Missing ENCODING field")
    ELSE Ok(IF rf.pixel_type.v.tag = "Block"
            THEN [rf EXCEPT !.pixel_type = Some(Block(rf.block_size.v))]
            ELSE rf)

\* The closure of read_header 105-115: the record built from a validated
\* accumulator.
HeaderRecord(ver, flds, kvs, required) ==
    [version |-> ver,
     fields |-> flds,
     key_values |-> kvs,
     dimension |-> required.dimension.v,
     sizes |-> required.sizes.v,
     pixel_type |-> required.pixel_type.v,
     encoding |-> required.encoding.v,
     endian |-> IF required.endian.some THEN required.endian.v ELSE "Little",
     buffer |-> <<>>]

-----------------------------------------------------------------------------
(* usize: 64 bits, held as its 8 bytes, least significant first *)

USizeBytes == 8

\* A usize from a number TLC can hold (0 .. 2^31 - 1).
USizeOf(n) ==
    [k \in 1..USizeBytes |->
        CASE k = 1 -> n % 256
          [] k = 2 -> (n \div 256) % 256
          [] k = 3 -> (n \div 65536) % 256
          [] k = 4 -> (n \div 16777216) % 256
          [] OTHER -> 0]

\* `v as usize` for an i32 v: sign extension to 64 bits.
I32AsUSize(v) ==
    [k \in 1..USizeBytes |->
        CASE k = 1 -> v % 256
          [] k = 2 -> (v \div 256) % 256
          [] k = 3 -> (v \div 65536) % 256
          [] k = 4 -> (v \div 16777216) % 256
          [] OTHER -> IF v < 0 THEN 255 ELSE 0]

\* `x as i32` for a usize x: the low 32 bits, read as two's complement.
USizeAsI32(x) ==
    x[1] + x[2] * 256 + x[3] * 65536
        + (IF x[4] >= 128 THEN x[4] - 256 ELSE x[4]) * 16777216

\* Whether a usize is below 2^31, and then its value.
USizeIsSmall(x) == x[4] < 128 /\ \A k \in 5..USizeBytes : x[k] = 0

USizeToInt(x) == USizeAsI32(x)

\* Column k (1..16) of the schoolbook product of two usizes, before carries.
MulColumn(a, b, k) ==
    LET RECURSIVE Sum(_)
        Sum(i) == IF i > USizeBytes THEN 0
                  ELSE (IF k + 1 - i >= 1 /\ k + 1 - i <= USizeBytes
                        THEN a[i] * b[k + 1 - i] ELSE 0) + Sum(i + 1)
    IN Sum(1)

\* The 16 bytes of a * b.
RECURSIVE MulBytes(_, _, _, _)
MulBytes(a, b, k, carry) ==
    IF k > 2 * USizeBytes THEN <<>>
    ELSE LET cur == MulColumn(a, b, k) + carry
         IN <<cur % 256>> \o MulBytes(a, b, k + 1, cur \div 256)

\* a * b on usize: the wrapped product and whether it overflowed 64 bits.
USizeMul(a, b) ==
    LET wide == MulBytes(a, b, 1, 0)
    IN [v |-> SubSeq(wide, 1, USizeBytes),
        overflow |-> \E k \in (USizeBytes + 1)..(2 * USizeBytes) : wide[k] # 0]

\* The 8 bytes of a + b and the carry out of them.
RECURSIVE AddBytes(_, _, _, _)
AddBytes(a, b, k, carry) ==
    IF k > USizeBytes THEN <<carry>>
    ELSE LET cur == a[k] + b[k] + carry
         IN <<cur % 256>> \o AddBytes(a, b, k + 1, cur \div 256)

\* a + b on usize: the wrapped sum and whether it overflowed 64 bits.
USizeAdd(a, b) ==
    LET wide == AddBytes(a, b, 1, 0)
    IN [v |-> SubSeq(wide, 1, USizeBytes), overflow |-> wide[USizeBytes + 1] # 0]

\* Iterator::product over usize, from 1: the wrapped product, and whether
\* some multiplication overflowed (a panic in a build with overflow checks,
\* the wrapped value otherwise).
RECURSIVE USizeProduct(_, _, _)
USizeProduct(xs, acc, overflow) ==
    IF Len(xs) = 0 THEN [v |-> acc, overflow |-> overflow]
    ELSE LET m == USizeMul(acc, xs[1])
         IN USizeProduct(Tail(xs), m.v, overflow \/ m.overflow)

\* x divided by 10, from the most significant byte down: quotient bytes
\* (least significant first) and the remainder.
RECURSIVE DivTen(_, _, _)
DivTen(x, k, rem) ==
    IF k = 0 THEN [q |-> <<>>, rem |-> rem]
    ELSE LET cur == rem * 256 + x[k]
             rest == DivTen(x, k - 1, cur % 10)
         IN [q |-> rest.q \o <<cur \div 10>>, rem |-> rest.rem]

\* <usize as ToString>::to_string: the decimal digits, no sign, no padding.
RECURSIVE USizeToString(_)
USizeToString(x) ==
    LET d == DivTen(x, USizeBytes, 0)
    IN IF \A k \in 1..USizeBytes : d.q[k] = 0
       THEN <<48 + d.rem>>
       ELSE USizeToString(d.q) \o <<48 + d.rem>>

\* Join with single spaces (Vec<String>::join(" ")).
RECURSIVE JoinSpace(_)
JoinSpace(parts) ==
    IF Len(parts) = 0 THEN <<>>
    ELSE IF Len(parts) = 1 THEN parts[1]
    ELSE parts[1] \o <<32>> \o JoinSpace(Tail(parts))

-----------------------------------------------------------------------------
(* The pixel codec: pixel.rs *)

\* Whether the model holds a value of the type as a two's-complement
\* number.  A float is held as the integer with its IEEE bit pattern
\* (f32::to_bits as i32, f64::to_bits as i64): to_le_bytes and from_le_bytes
\* of a float are those of its bits.
IsSigned(tag) == tag \in {"Int8", "Int16", "Int32", "Int64", "Float32", "Float64"}

\* v shifted right by 8 * k bits (arithmetic shift).
RECURSIVE ShiftRightBytes(_, _)
ShiftRightBytes(v, k) ==
    IF k = 0 THEN v ELSE ShiftRightBytes(v \div 256, k - 1)

\* <T>::to_le_bytes: byte k (1..size) has significance 256^(k-1).
to_le_bytes(v, size) ==
    [k \in 1..size |-> ShiftRightBytes(v, k - 1) % 256]

\* A big-endian write that leaves the bytes least significant first.
ToBeBytesUnreversed(v, size) == to_le_bytes(v, size)

\* <T>::to_be_bytes: the most significant byte first.
to_be_bytes(v, size) ==
    [k \in 1..size |-> ShiftRightBytes(v, size - k) % 256]

\* The number whose bytes, most significant first, are `bytes`.
RECURSIVE Assemble(_, _)
Assemble(bytes, acc) ==
    IF Len(bytes) = 0 THEN acc
    ELSE Assemble(Tail(bytes), acc * 256 + bytes[1])

\* <T>::from_be_bytes
from_be_bytes(bytes, signed) ==
    IF Len(bytes) = 0 THEN 0
    ELSE Assemble(Tail(bytes),
                  IF signed /\ bytes[1] >= 128 THEN bytes[1] - 256 ELSE bytes[1])

Reverse(s) == [k \in 1..Len(s) |-> s[Len(s) + 1 - k]]

\* <T>::from_le_bytes
from_le_bytes(bytes, signed) == from_be_bytes(Reverse(bytes), signed)

\* PixelValue::to_bytes into a slice of exactly size_of::<T>() bytes
\* (copy_from_slice panics on any other length): the slice afterwards.
ToBytes(v, tag, endian) ==
    LET size == PixelTypeSize(Scalar(tag))
    IN IF endian = "Big" THEN to_be_bytes(v, size) ELSE to_le_bytes(v, size)

\* PixelValue::from_bytes: the first size_of::<T>() bytes of the slice.
FromBytes(slice, tag, endian) ==
    LET size == PixelTypeSize(Scalar(tag))
        bytes == SubSeq(slice, 1, size)
    IN IF endian = "Big" THEN from_be_bytes(bytes, IsSigned(tag))
       ELSE from_le_bytes(bytes, IsSigned(tag))

-----------------------------------------------------------------------------
(* The typed image and its conversions: image.rs, nrrd/mod.rs *)

\* ImageFromNrrdErr::{DimensionsDoNotMatch, PixelTypesDoNotMatch, UnsupportedEncoding}
ConvErr(kind) == Err(kind, "", 0, <<>>)

\* ImageFromNrrdErr::CannotReadNrrd(err), the From impl behind `?`
CannotReadNrrd(e) == [e EXCEPT !.kind = "CannotReadNrrd", !.cause = e.kind]

\* The call did not return: a panic (index or slice out of range, arithmetic
\* overflow in a build with overflow checks, capacity overflow of a Vec).
Panic == Err("panic", "", 0, <<>>)

\* Image::pixels_count / the product in Image::new
pixels_count(sizes) == USizeProduct(sizes, USizeOf(1), FALSE)

\* Image::new(background, sizes), for sizes whose product (wrapped, where
\* it overflows) a Vec can hold.
ImageNew(tag, background, sizes) ==
    [T |-> tag, D |-> Len(sizes), sizes |-> sizes,
     buffer |-> [i \in 1..USizeToInt(pixels_count(sizes).v) |-> background]]

\* What Image::new can do: where the product of the sizes overflows, a
\* panic in a build with overflow checks and the image of the wrapped
\* product otherwise.
ImageNewOutcomes(tag, background, sizes) ==
    IF pixels_count(sizes).overflow
    THEN {Panic, Ok(ImageNew(tag, background, sizes))}
    ELSE {Ok(ImageNew(tag, background, sizes))}

\* Image::offset: the loop over the axes, on usize; the wrapped offset and
\* whether an addition or multiplication overflowed.
RECURSIVE OffsetLoop(_, _, _, _, _, _)
OffsetLoop(sizes, index, i, offset, stride, overflow) ==
    IF i > Len(index) THEN [v |-> offset, overflow |-> overflow]
    ELSE LET term == USizeMul(USizeOf(index[i]), stride)
             sum == USizeAdd(offset, term.v)
             next == USizeMul(stride, sizes[i])
         IN OffsetLoop(sizes, index, i + 1, sum.v, next.v,
                       overflow \/ term.overflow \/ sum.overflow \/ next.overflow)

Offset(img, index) == OffsetLoop(img.sizes, index, 1, USizeOf(0), USizeOf(1), FALSE)

\* Image::get_mut / get: &mut self.buffer[self.offset(index)].  The place in
\* the buffer, or a panic: of the index when it is outside the buffer, of
\* the arithmetic in a build with overflow checks.
get_mut(img, index) ==
    LET off == Offset(img, index)
    IN (IF off.overflow THEN {Panic} ELSE {})
          \cup {IF USizeIsSmall(off.v) /\ USizeToInt(off.v) < Len(img.buffer)
                THEN Ok(USizeToInt(off.v))
                ELSE Panic}

\* impl From<&Image<T, D>> for Nrrd
NrrdFromImage(img) ==
    LET pixel_size == PixelTypeSize(Scalar(img.T))
        endian == "Little"
        len == USizeToInt(pixels_count(img.sizes).v) * pixel_size
        encoded == [p \in 1..Len(img.buffer) |-> ToBytes(img.buffer[p], img.T, endian)]
    IN [endian |-> endian,
        buffer |-> [i \in 1..len |-> encoded[(i - 1) \div pixel_size + 1]
                                            [((i - 1) % pixel_size) + 1]],
        dimension |-> img.D,
        sizes |-> [i \in 1..Len(img.sizes) |-> USizeAsI32(img.sizes[i])],
        pixel_type |-> Scalar(img.T),
        encoding |-> Enc("Raw"),
        version |-> Nrrd5,
        fields |->
            {Field(FieldNames.type, PixelTypeToString(Scalar(img.T))),
             Field(FieldNames.dimension, USizeToString(USizeOf(img.D))),
             Field(FieldNames.sizes,
                   JoinSpace([i \in 1..Len(img.sizes) |-> USizeToString(img.sizes[i])])),
             Field(FieldNames.endian, IF endian = "Little" THEN EndianNames.little ELSE EndianNames.big),
             Field(FieldNames.encoding, EncodingNames.raw)},
        key_values |-> {}]

\* The three checks with the pixel type tested before the dimension.
TryFromCheckTypeFirst(n, tag, D) ==
    IF Scalar(tag) # n.pixel_type THEN "PixelTypesDoNotMatch"
    ELSE IF I32AsUSize(n.dimension) # USizeOf(D) THEN "DimensionsDoNotMatch"
    ELSE IF n.encoding # Enc("Raw") THEN "UnsupportedEncoding"
    ELSE ""

\* The three checks of try_from, in the order of image.rs 90-100: the error
\* returned, or "" when all pass.
TryFromCheck(n, tag, D) ==
    IF I32AsUSize(n.dimension) # USizeOf(D) THEN "DimensionsDoNotMatch"
    ELSE IF Scalar(tag) # n.pixel_type THEN "PixelTypesDoNotMatch"
    ELSE IF n.encoding # Enc("Raw") THEN "UnsupportedEncoding"
    ELSE ""

\* image.rs 107-118: the buffer of `pixels` elements, each decoded from its
\* window of the record's buffer.
TryFromDecode(n, tag, sizes, pixels) ==
    LET pixel_size == PixelTypeSize(Scalar(tag))
    IN IF ~USizeIsSmall(pixels) THEN Panic
       ELSE IF USizeToInt(pixels) > Len(n.buffer) \div pixel_size THEN Panic
       ELSE Ok([T |-> tag, D |-> Len(sizes), sizes |-> sizes,
                buffer |-> [i \in 1..USizeToInt(pixels) |->
                    FromBytes(SubSeq(n.buffer, (i - 1) * pixel_size + 1, Len(n.buffer)),
                              tag, n.endian)]])

\* impl TryFrom<&Nrrd> for Image<T, D>: what the call can do.  More than one
\* outcome only where the product of the sizes overflows usize.
ImageTryFrom(n, tag, D) ==
    IF TryFromCheck(n, tag, D) # "" THEN {ConvErr(TryFromCheck(n, tag, D))}
    ELSE IF Len(n.sizes) < D THEN {Panic}
    ELSE LET sizes == [i \in 1..D |-> I32AsUSize(n.sizes[i])]
             pixels == pixels_count(sizes)
         IN IF pixels.overflow
            THEN {Panic, TryFromDecode(n, tag, sizes, pixels.v)}
            ELSE {TryFromDecode(n, tag, sizes, pixels.v)}

-----------------------------------------------------------------------------
(* The reader: reader.rs *)

\* BufRead::read_line: the bytes up to and including the first '\n' (or to
\* the end), which must be UTF-8.  No byte of the streams modelled here
\* starts a multi-byte sequence, so UTF-8 is ASCII.
ReadLine(s) ==
    LET at == FindFirst(s, <<NL>>)
        line == IF at = 0 THEN s ELSE SubSeq(s, 1, at)
    IN [ok |-> \A i \in 1..Len(line) : line[i] < 128,
        line |-> line,
        rest |-> SubSeq(s, Len(line) + 1, Len(s))]

remove_trailing_new_line(line) ==
    IF EndsWith(line, <<CR, NL>>) THEN SubSeq(line, 1, Len(line) - 2)
    ELSE IF EndsWith(line, <<NL>>) THEN SubSeq(line, 1, Len(line) - 1)
    ELSE line

try_read_magic(magic_line) ==
    CASE magic_line = MagicNames.NRRD0001 -> Ok(Nrrd1)
      [] magic_line = MagicNames.NRRD0002 -> Ok(Nrrd2)
      [] magic_line = MagicNames.NRRD0003 -> Ok(Nrrd3)
      [] magic_line = MagicNames.NRRD0004 -> Ok(Nrrd4)
      [] magic_line = MagicNames.NRRD0005 -> Ok(Nrrd5)
      [] OTHER -> UnknownVersion(magic_line)

try_read_field(line) ==
    LET parts == SplitOnce(line, S_colon_space)
    IN IF ~parts.some THEN None
       ELSE Some(Field(ToLowercase(parts.before), TrimEnd(parts.after)))

try_read_key_value(line) ==
    LET parts == SplitOnce(line, S_colon_equals)
    IN IF ~parts.some \/ Len(parts.before) = 0 THEN None
       ELSE Some(KeyValue(parts.before, parts.after))

\* i32 multiplication: the wrapped product and whether it overflowed.
I32Mul(a, b) ==
    LET wide == USizeMul(I32AsUSize(a), I32AsUSize(b)).v
    IN [v |-> USizeAsI32(wide), overflow |-> I32AsUSize(USizeAsI32(wide)) # wide]

\* Iterator::product::<i32>
RECURSIVE I32Product(_, _, _)
I32Product(xs, acc, overflow) ==
    IF Len(xs) = 0 THEN [v |-> acc, overflow |-> overflow]
    ELSE LET m == I32Mul(acc, xs[1])
         IN I32Product(Tail(xs), m.v, overflow \/ m.overflow)

\* validate_buffer_size: what the call can do ("true", "false", or a "panic"
\* in a build with overflow checks when a product overflows).
validate_buffer_size(n) ==
    LET buf_size == USizeOf(Len(n.buffer))
        pixel_size == I32AsUSize(PixelTypeSize(n.pixel_type))
        num_pixels == I32Product(n.sizes, 1, FALSE)
        expected == USizeMul(pixel_size, I32AsUSize(num_pixels.v))
        equal == IF buf_size = expected.v THEN "true" ELSE "false"
    IN IF num_pixels.overflow \/ expected.overflow
       THEN {"panic", equal}
       ELSE {equal}

\* A reader whose insert never raises the duplicate error.
DuplicateNeverRaised(inserted) == FALSE

\* reader.rs 75-77: `exist` is what HashSet::insert returned, and the
\* duplicate error is raised when it is true.
DuplicateRaised(inserted) == inserted.newly

\* The locals of read_header.
Locals(ver, flds, kvs, rf, n) ==
    [version |-> ver, fields |-> flds, key_values |-> kvs,
     required_fields |-> rf, line_num |-> n]

\* One pass of the body loop of read_header on the line read_line gave:
\* "break", "continue", or "return" with the error.
HeaderLine(L, raw) ==
    LET line == remove_trailing_new_line(remove_trailing_new_line(raw))
        n == L.line_num + 1
        L1 == [L EXCEPT !.line_num = n]
        field == try_read_field(line)
        kv == try_read_key_value(line)
    IN IF line = <<NL>> \/ line = <<CR, NL>>
       THEN [next |-> "break", locals |-> L1, err |-> NoResult]
       ELSE IF StartsWith(line, <<35>>)
       THEN [next |-> "continue", locals |-> L1, err |-> NoResult]
       ELSE IF field.some
       THEN LET parsed == RequiredFieldsParse(L.required_fields, field.v)
                inserted == InsertField(L.fields, field.v)
                L2 == [L1 EXCEPT !.required_fields = parsed.v, !.fields = inserted.set]
            IN IF ~parsed.ok
               THEN [next |-> "return", locals |-> L1, err |-> parsed]
               ELSE IF DuplicateRaised(inserted)
               THEN [next |-> "return", locals |-> L2,
                     err |-> DuplicateField(field.v.identifier, n)]
               ELSE [next |-> "continue", locals |-> L2, err |-> NoResult]
       ELSE IF L.version < Nrrd2
       THEN [next |-> "return", locals |-> L1, err |-> UnexpectedLine(n, line)]
       ELSE IF kv.some
       THEN [next |-> "continue",
             locals |-> [L1 EXCEPT !.key_values = InsertKeyValue(L.key_values, kv.v)],
             err |-> NoResult]
       ELSE [next |-> "return", locals |-> L1, err |-> UnexpectedLine(n, line)]

\* read_header 105-115 and read_nrrd 29-35, once the loop has ended: what
\* read_nrrd can return on the bytes left in the stream.
ReadNrrdAfterHeader(L, rest) ==
    LET required == RequiredFieldsValidate(L.required_fields)
        record == [HeaderRecord(L.version, L.fields, L.key_values, required.v)
                      EXCEPT !.buffer = rest]
    IN IF ~required.ok THEN {required}
       ELSE {IF ok = "panic" THEN Panic
             ELSE IF ok = "true" THEN Ok(record)
             ELSE Malformed("Buffer size mismatch") : ok \in validate_buffer_size(record)}

-----------------------------------------------------------------------------
(* The streams read *)

\* How many body lines a generated header has at most.
MaxHeaderLines == 2

MagicLines == {B("NRRD0005"), B("NRRD0001"), B("NRRD5")}

BodyLines ==
    {B("type: float"), B("dimension: 2"), B("sizes: 2 2"), B("endian: little\r"),
     B("encoding: raw"), B("DIMENSION: 3"), B("dimension: x"), B("space: left"),
     B("# comment"), B("key:=value"), B(":=value"), B("junk"), B("")}

\* 1.0, 2.0, 3.0, 4.0 as little-endian f32
FloatPayload == <<0, 0, 128, 63, 0, 0, 0, 64, 0, 0, 64, 64, 0, 0, 128, 64>>

Payloads == {<<>>, <<1, 2, 3, 4>>}

\* The lines, each ended by '\n'.
RECURSIVE Lines(_)
Lines(ls) == IF Len(ls) = 0 THEN <<>> ELSE ls[1] \o <<NL>> \o Lines(Tail(ls))

GeneratedStreams ==
    {Lines(<<magic>>) \o Lines(body) \o payload :
        magic \in MagicLines,
        body \in UNION {[1..n -> BodyLines] : n \in 0..MaxHeaderLines},
        payload \in Payloads}

\* The header of the format's own example: float, 2 x 2, little, raw.
ExampleHeader(encoding) ==
    <<B("NRRD0005"), B("type: float"), B("dimension: 2"), B("sizes: 2 2"),
      B("endian: little"), B("encoding: ") \o encoding, B("")>>

\* The example with its 16 payload bytes.
ExampleStream == Lines(ExampleHeader(B("raw"))) \o FloatPayload

\* The example one payload byte short.
ShortStream == Lines(ExampleHeader(B("raw"))) \o SubSeq(FloatPayload, 1, 15)

\* The example declared gzip.
GzipStream == Lines(ExampleHeader(B("gzip"))) \o FloatPayload

\* A one-byte type without an endian field.
UInt8Stream ==
    Lines(<<B("NRRD0004"), B("type: uint8"), B("dimension: 1"), B("sizes: 3"),
            B("encoding: raw"), B("")>>) \o <<7, 8, 9>>

\* A header that ends with the stream, no blank line and no payload.
HeaderOnlyStream ==
    Lines(<<B("NRRD0005"), B("type: uint8"), B("dimension: 1"), B("sizes: 0"),
            B("encoding: raw")>>)

ScenarioStreams ==
    {ExampleStream, ShortStream, GzipStream, UInt8Stream, HeaderOnlyStream}

Streams == GeneratedStreams \cup ScenarioStreams

\* The <T, D> the reading call is instantiated at.
Generics == {[T |-> "Float32", D |-> 2], [T |-> "UInt8", D |-> 1]}

-----------------------------------------------------------------------------
(* Image::try_read_nrrd on a stream: read_nrrd, then try_from *)

NoImage == [T |-> "", D |-> 0, sizes |-> <<>>, buffer |-> <<>>]
NoNrrd == [version |-> 0]
NoPixel == [T |-> "", value |-> 0, endian |-> ""]

Init ==
    /\ input \in Streams
    /\ generic \in Generics
    /\ stream = input
    /\ pc = "magic"
    /\ version = 0
    /\ fields = {}
    /\ key_values = {}
    /\ required_fields = DefaultRequiredFields
    /\ line_num = 0
    /\ read_result = NoResult
    /\ image = NoImage
    /\ nrrd = NoNrrd
    /\ pixel = NoPixel
    /\ buffer = <<>>
    /\ result = NoResult

\* read_header 39-47: the magic line.
ReadMagic ==
    /\ pc = "magic"
    /\ LET r == ReadLine(stream)
           v == try_read_magic(remove_trailing_new_line(r.line))
       IN /\ stream' = r.rest
          /\ IF r.ok /\ v.ok
             THEN /\ version' = v.v
                  /\ pc' = "body"
                  /\ UNCHANGED read_result
             ELSE /\ read_result' = IF r.ok THEN v ELSE IOError
                  /\ pc' = "read_done"
                  /\ UNCHANGED version
    /\ UNCHANGED <<input, generic, fields, key_values, required_fields, line_num,
                   image, nrrd, pixel, buffer, result>>

\* One pass of the loop of read_header (49-103); when the loop breaks, the
\* rest of read_header and of read_nrrd, which read no further line.
ReadHeaderLine ==
    /\ pc = "body"
    /\ LET r == ReadLine(stream)
           h == HeaderLine(Locals(version, fields, key_values, required_fields,
                                  line_num), r.line)
       IN IF ~r.ok
          THEN /\ read_result' = IOError
               /\ pc' = "read_done"
               /\ stream' = r.rest
               /\ UNCHANGED <<fields, key_values, required_fields, line_num, nrrd>>
          ELSE /\ fields' = h.locals.fields
               /\ key_values' = h.locals.key_values
               /\ required_fields' = h.locals.required_fields
               /\ line_num' = h.locals.line_num
               /\ CASE h.next = "continue" ->
                         /\ pc' = "body"
                         /\ stream' = r.rest
                         /\ UNCHANGED <<read_result, nrrd>>
                    [] h.next = "return" ->
                         /\ pc' = "read_done"
                         /\ stream' = r.rest
                         /\ read_result' = h.err
                         /\ UNCHANGED nrrd
                    [] h.next = "break" ->
                         \E out \in ReadNrrdAfterHeader(h.locals, r.rest) :
                             /\ pc' = "read_done"
                             /\ read_result' = out
                             /\ nrrd' = IF out.ok THEN out.v ELSE nrrd
                             /\ stream' = IF out.kind = "Malformed" /\ out.msg # "Buffer size mismatch"
                                          THEN r.rest ELSE <<>>
    /\ UNCHANGED <<input, generic, version, image, pixel, buffer, result>>

\* Image::try_read_nrrd 43-44: the `?` on read_nrrd's result, then try_from.
TryReadNrrd ==
    /\ pc = "read_done"
    /\ pc' = "done"
    /\ IF ~read_result.ok
       THEN /\ result' = IF read_result.kind = "panic" THEN Panic
                         ELSE CannotReadNrrd(read_result)
            /\ UNCHANGED image
       ELSE \E out \in ImageTryFrom(read_result.v, generic.T, generic.D) :
                /\ result' = out
                /\ image' = IF out.ok THEN out.v ELSE image
    /\ UNCHANGED <<input, generic, stream, version, fields, key_values,
                   required_fields, line_num, read_result, nrrd, pixel, buffer>>

Next == ReadMagic \/ ReadHeaderLine \/ TryReadNrrd

Spec == Init /\ [][Next]_vars

-----------------------------------------------------------------------------
(* The required-field accumulator on its own: parse calls, then validate *)

SampleFields ==
    {Field(FieldNames.dimension, B("2")), Field(FieldNames.dimension, B("3")), Field(FieldNames.dimension, B("0")),
     Field(FieldNames.dimension, B("-1")), Field(FieldNames.dimension, B("two")),
     Field(FieldNames.sizes, B("2 2")), Field(FieldNames.sizes, B("4 5 6")), Field(FieldNames.sizes, B("7")),
     Field(FieldNames.sizes, B("")), Field(FieldNames.sizes, B("2 x")),
     Field(FieldNames.type, B("float")), Field(FieldNames.type, B("uint8")), Field(FieldNames.type, B("signed char")),
     Field(FieldNames.type, B("block")), Field(FieldNames.type, B("complex")),
     Field(FieldNames.encoding, B("raw")), Field(FieldNames.encoding, B("gz")), Field(FieldNames.encoding, B("hex")),
     Field(FieldNames.block_size, B("4")), Field(FieldNames.blocksize, B("0")), Field(FieldNames.block_size, B("big")),
     Field(FieldNames.endian, B("little")), Field(FieldNames.endian, B("big")), Field(FieldNames.endian, B("middle")),
     Field(B("space"), B("left"))}

NoField == Field(<<>>, <<>>)

InitRequiredFields ==
    /\ input = NoField
    /\ generic = [T |-> "", D |-> 0]
    /\ stream = <<>>
    /\ pc = "parse"
    /\ version = Nrrd5
    /\ fields = {}
    /\ key_values = {}
    /\ required_fields = DefaultRequiredFields
    /\ line_num = 0
    /\ read_result = NoResult
    /\ image = NoImage
    /\ nrrd = NoNrrd
    /\ pixel = NoPixel
    /\ buffer = <<>>
    /\ result = NoResult

\* required_fields.parse(&field)?: `input` is the field of the call, and
\* read_result what the call returned; an error ends the parse.
ParseField ==
    /\ pc = "parse"
    /\ \E field \in SampleFields :
          LET r == RequiredFieldsParse(required_fields, field)
          IN /\ input' = field
             /\ read_result' = r
             /\ required_fields' = IF r.ok THEN r.v ELSE required_fields
             /\ pc' = IF r.ok THEN "parse" ELSE "done"
    /\ UNCHANGED <<generic, stream, version, fields, key_values, line_num, image,
                   nrrd, pixel, buffer, result>>

\* required_fields.validate().map(|required| Nrrd { .. }): read_result is
\* what validate returned, result the header record or the error.
Validate ==
    /\ pc = "parse"
    /\ LET r == RequiredFieldsValidate(required_fields)
       IN /\ read_result' = r
          /\ result' = IF r.ok THEN Ok(HeaderRecord(version, fields, key_values, r.v))
                       ELSE r
    /\ pc' = "validated"
    /\ UNCHANGED <<input, generic, stream, version, fields, key_values,
                   required_fields, line_num, image, nrrd, pixel, buffer>>

NextRequiredFields == ParseField \/ Validate

SpecRequiredFields == InitRequiredFields /\ [][NextRequiredFields]_vars

-----------------------------------------------------------------------------
(* The pixel codec on its own: to_bytes, then from_bytes *)

\* The values tried, per type (floats by bit pattern: 1065353216 is 1.0f32,
\* 2143289344 a quiet NaN).  The 8- and 16-bit types are tried in full at
\* their edges; wider values are those a TLC integer can hold.
SampleValues(tag) ==
    CASE tag = "Int8" -> -128..127
      [] tag = "UInt8" -> 0..255
      [] tag = "Int16" -> {-32768, -258, -2, -1, 0, 1, 258, 32767}
      [] tag = "UInt16" -> {0, 1, 258, 32768, 65535}
      [] tag = "Int32" -> {I32Min, -16909060, -1, 0, 1, 16909060, I32Max}
      [] tag = "UInt32" -> {0, 1, 16909060, I32Max}
      [] tag = "Int64" -> {I32Min, -16909060, -1, 0, 1, 16909060, I32Max}
      [] tag = "UInt64" -> {0, 1, 16909060, I32Max}
      [] tag = "Float32" -> {0, 1, 1065353216, -1082130432, 2143289344, -4194303}
      [] tag = "Float64" -> {0, 1, 16909060, -1, -16909060, I32Min}

\* What the destination slice holds before to_bytes writes it.
Filler(size) == [k \in 1..size |-> 170]

\* Bytes that follow the value in the slice from_bytes is given.
Tails == {<<>>, <<1>>, <<255, 0>>}

InitCodec ==
    /\ pixel \in {[T |-> tag, value |-> v, endian |-> e] :
                    tag \in ScalarTags, v \in UNION {SampleValues(g) : g \in ScalarTags},
                    e \in {"Little", "Big"}}
    /\ pixel.value \in SampleValues(pixel.T)
    /\ buffer = Filler(PixelTypeSize(Scalar(pixel.T)))
    /\ input = <<>>
    /\ generic = [T |-> pixel.T, D |-> 0]
    /\ stream = <<>>
    /\ pc = "to_bytes"
    /\ version = 0
    /\ fields = {}
    /\ key_values = {}
    /\ required_fields = DefaultRequiredFields
    /\ line_num = 0
    /\ read_result = NoResult
    /\ image = NoImage
    /\ nrrd = NoNrrd
    /\ result = NoResult

\* pixel.to_bytes(&mut buffer, endian)
PixelToBytes ==
    /\ pc = "to_bytes"
    /\ buffer' = ToBytes(pixel.value, pixel.T, pixel.endian)
    /\ pc' = "from_bytes"
    /\ UNCHANGED <<input, generic, stream, version, fields, key_values,
                   required_fields, line_num, read_result, image, nrrd, pixel, result>>

\* T::from_bytes(&slice, endian) on a slice that starts with the bytes
\* written: `input` is the slice, result the value returned.
PixelFromBytes ==
    /\ pc = "from_bytes"
    /\ \E tail \in Tails :
          /\ input' = buffer \o tail
          /\ result' = Ok(FromBytes(buffer \o tail, pixel.T, pixel.endian))
    /\ pc' = "done"
    /\ UNCHANGED <<generic, stream, version, fields, key_values, required_fields,
                   line_num, read_result, image, nrrd, pixel, buffer>>

NextCodec == PixelToBytes \/ PixelFromBytes

SpecCodec == InitCodec /\ [][NextCodec]_vars

-----------------------------------------------------------------------------
(* Images: Image::new, writes through get_mut, Nrrd::from, try_from *)

\* The largest number of axes of an image tried.
MaxDim == 2

\* The largest number of pixels of an image tried.
MaxPixels == 4

\* 2^32, an axis size that does not fit an i32.
TwoTo32 == [k \in 1..USizeBytes |-> IF k = 5 THEN 1 ELSE 0]

AxisSizes == {USizeOf(n) : n \in 0..MaxPixels} \cup {TwoTo32}

\* The shapes Image::new is given: the product of the sizes, wrapped where
\* it overflows, does not exceed what is tried.
Shapes ==
    {s \in UNION {[1..d -> AxisSizes] : d \in 0..MaxDim} :
        /\ USizeIsSmall(pixels_count(s).v)
        /\ USizeToInt(pixels_count(s).v) <= MaxPixels}

ImageTypes == {"UInt8", "Int16", "Float32", "Int64"}

\* The pixel values written (the first is the background of Image::new).
ImageValues(tag) ==
    CASE tag = "UInt8" -> {0, 200}
      [] tag = "Int16" -> {-2, 258}
      [] tag = "Float32" -> {1065353216, 2143289344}
      [] tag = "Int64" -> {-1, 16909060}

\* The coordinates inside an image, every index[i] below sizes[i] (those
\* with no index above MaxPixels).
Coordinates(img) ==
    {index \in [1..img.D -> 0..MaxPixels] :
        \A i \in 1..img.D : ~USizeIsSmall(img.sizes[i]) \/ index[i] < USizeToInt(img.sizes[i])}

\* The <T, D> a record is converted at.
DecodeGenerics == {[T |-> tag, D |-> d] : tag \in ImageTypes, d \in 0..MaxDim}

InitImage ==
    /\ \E tag \in ImageTypes, s \in Shapes :
          \E out \in ImageNewOutcomes(tag, CHOOSE v \in ImageValues(tag) :
                                              \A w \in ImageValues(tag) : v <= w, s) :
              /\ generic = [T |-> tag, D |-> Len(s)]
              /\ image = IF out.ok THEN out.v ELSE NoImage
              /\ pc = IF out.ok THEN "image" ELSE "panicked"
              /\ result = IF out.ok THEN NoResult ELSE out
    /\ input = <<>>
    /\ stream = <<>>
    /\ version = 0
    /\ fields = {}
    /\ key_values = {}
    /\ required_fields = DefaultRequiredFields
    /\ line_num = 0
    /\ read_result = NoResult
    /\ nrrd = NoNrrd
    /\ pixel = NoPixel
    /\ buffer = <<>>

\* *image.get_mut(&index) = v, for a coordinate inside the image.
SetPixel ==
    /\ pc = "image"
    /\ \E index \in Coordinates(image), v \in ImageValues(image.T) :
          \E at \in get_mut(image, index) :
              IF at.ok
              THEN /\ image' = [image EXCEPT !.buffer[at.v + 1] = v]
                   /\ UNCHANGED <<pc, result>>
              ELSE /\ pc' = "panicked"
                   /\ result' = at
                   /\ UNCHANGED image
    /\ UNCHANGED <<input, generic, stream, version, fields, key_values,
                   required_fields, line_num, read_result, nrrd, pixel, buffer>>

\* Nrrd::from(&image)
Encode ==
    /\ pc = "image"
    /\ nrrd' = NrrdFromImage(image)
    /\ pc' = "encoded"
    /\ UNCHANGED <<input, generic, stream, version, fields, key_values,
                   required_fields, line_num, read_result, image, pixel, buffer, result>>

\* Image::<T, D>::try_from(&nrrd), at any <T, D>: generic is the <T, D>.
Decode ==
    /\ pc = "encoded"
    /\ \E g \in DecodeGenerics :
          \E out \in ImageTryFrom(nrrd, g.T, g.D) :
              /\ generic' = g
              /\ result' = out
    /\ pc' = "done"
    /\ UNCHANGED <<input, stream, version, fields, key_values, required_fields,
                   line_num, read_result, image, nrrd, pixel, buffer>>

NextImage == SetPixel \/ Encode \/ Decode

SpecImage == InitImage /\ [][NextImage]_vars

-----------------------------------------------------------------------------
(* try_from on records of every encoding, endianness and declared type *)

Encodings == {Enc("Raw"), Enc("Ascii"), Enc("GZip"), Enc("BZip2"), EncOther(B("hex"))}

\* The pixel types of the byte width of `tag`, the opaque block included.
SameWidth(tag) ==
    {Scalar(g) : g \in {h \in ScalarTags :
                          PixelTypeSize(Scalar(h)) = PixelTypeSize(Scalar(tag))}}
        \cup {Block(PixelTypeSize(Scalar(tag)))}

\* Images whose pixels alternate between the two values of their type.
RecordImages ==
    {[T |-> tag, D |-> Len(s), sizes |-> s,
      buffer |-> [i \in 1..USizeToInt(pixels_count(s).v) |->
                    IF i % 2 = 1 THEN CHOOSE v \in ImageValues(tag) : \A w \in ImageValues(tag) : v <= w
                    ELSE CHOOSE v \in ImageValues(tag) : \A w \in ImageValues(tag) : v >= w]] :
        tag \in {"UInt8", "Float32"}, s \in Shapes}

\* Records as a header would declare them: the sizes as many as the
\* dimension and the buffer as long as the sizes and the type's width say.
Records ==
    UNION {{[NrrdFromImage(img) EXCEPT !.encoding = e, !.endian = en, !.pixel_type = pt] :
               e \in Encodings, en \in {"Little", "Big"}, pt \in SameWidth(img.T)} :
           img \in RecordImages}

InitTryFrom ==
    /\ nrrd \in Records
    /\ generic = [T |-> "", D |-> 0]
    /\ input = <<>>
    /\ stream = <<>>
    /\ pc = "encoded"
    /\ version = 0
    /\ fields = {}
    /\ key_values = {}
    /\ required_fields = DefaultRequiredFields
    /\ line_num = 0
    /\ read_result = NoResult
    /\ image = NoImage
    /\ pixel = NoPixel
    /\ buffer = <<>>
    /\ result = NoResult

NextTryFrom == Decode

SpecTryFrom == InitTryFrom /\ [][NextTryFrom]_vars

-----------------------------------------------------------------------------
(* The writer: nrrd/writer.rs *)

\* A writer whose order puts 'dimension' before 'type'.
FieldOrderDimensionFirst(f) ==
    CASE f.identifier = FieldNames.dimension -> 0
      [] f.identifier = FieldNames.type -> 1
      [] f.identifier = FieldNames.sizes -> 2
      [] OTHER -> 3

\* field_order: 0, 1, 2 for type, dimension, sizes; usize::MAX for every
\* other field, held here as 3 (only the order of the keys is used).
field_order(f) ==
    CASE f.identifier = FieldNames.type -> 0
      [] f.identifier = FieldNames.dimension -> 1
      [] f.identifier = FieldNames.sizes -> 2
      [] OTHER -> 3

\* The orders in which iterating a HashSet can give its elements.
RECURSIVE IterationOrders(_)
IterationOrders(set) ==
    IF set = {} THEN {<<>>}
    ELSE UNION {{<<x>> \o rest : rest \in IterationOrders(set \ {x})} : x \in set}

\* sort_by_key(|f| field_order(f)): a stable sort, elements of equal key
\* keep the order they had.
SortByFieldOrder(seq) ==
    SelectSeq(seq, LAMBDA f : field_order(f) = 0)
        \o SelectSeq(seq, LAMBDA f : field_order(f) = 1)
        \o SelectSeq(seq, LAMBDA f : field_order(f) = 2)
        \o SelectSeq(seq, LAMBDA f : field_order(f) = 3)

\* writeln!(buf_writer, "{}: {}", field.identifier, field.descriptor)
WriteFieldLine(f) == f.identifier \o S_colon_space \o f.descriptor \o <<NL>>

\* writeln!(buf_writer, "{}:={}", key_value.key, key_value.value)
WriteKeyValueLine(kv) == kv.key \o S_colon_equals \o kv.value \o <<NL>>

\* Fields and key/values a record can hold besides the five of Nrrd::from.
ExtraFields == {Field(B("space"), B("left"))}

ExtraKeyValues == {KeyValue(B("key"), B("value")), KeyValue(B("a b"), B(""))}

\* The images whose records are written.
WriterImages ==
    {[T |-> "UInt8", D |-> 1, sizes |-> <<USizeOf(3)>>, buffer |-> <<7, 10, 9>>],
     [T |-> "Float32", D |-> 1, sizes |-> <<USizeOf(1)>>, buffer |-> <<1065353216>>],
     [T |-> "Int16", D |-> 0, sizes |-> <<>>, buffer |-> <<258>>]}

\* Records given to write_nrrd: those of Nrrd::from, and the same with
\* priority fields missing, further fields and key/values.
WriterRecords ==
    UNION {{[NrrdFromImage(img) EXCEPT
                !.fields = {f \in NrrdFromImage(img).fields : f.identifier \notin drop} \cup add,
                !.key_values = kvs] :
               drop \in SUBSET {FieldNames.type, FieldNames.dimension, FieldNames.sizes},
               add \in SUBSET ExtraFields,
               kvs \in SUBSET ExtraKeyValues} :
           img \in WriterImages}

\* Before write_nrrd: `stream` is what the writer has been given so far,
\* `input` the fields still to write, in order, and key_values the
\* key/values still to write.
InitWriter ==
    /\ nrrd \in WriterRecords
    /\ generic = [T |-> "", D |-> 0]
    /\ input = <<>>
    /\ stream = <<>>
    /\ pc = "write_magic"
    /\ version = 0
    /\ fields = {}
    /\ key_values = {}
    /\ required_fields = DefaultRequiredFields
    /\ line_num = 0
    /\ read_result = NoResult
    /\ image = NoImage
    /\ pixel = NoPixel
    /\ buffer = <<>>
    /\ result = NoResult

\* writer.rs 9-13: the magic line, then the fields collected and sorted.
WriteMagic ==
    /\ pc = "write_magic"
    /\ stream' = stream \o MagicNames.NRRD0005 \o <<NL>>
    /\ \E collected \in IterationOrders(nrrd.fields) :
          input' = SortByFieldOrder(collected)
    /\ key_values' = nrrd.key_values
    /\ pc' = "write_header"
    /\ UNCHANGED <<generic, version, fields, required_fields, line_num, read_result,
                   image, nrrd, pixel, buffer, result>>

\* writer.rs 15-17: one pass of the loop over the ordered fields.
WriteField ==
    /\ pc = "write_header"
    /\ Len(input) > 0
    /\ stream' = stream \o WriteFieldLine(Head(input))
    /\ input' = Tail(input)
    /\ UNCHANGED <<generic, pc, version, fields, key_values, required_fields, line_num,
                   read_result, image, nrrd, pixel, buffer, result>>

\* writer.rs 20-22: one pass of the loop over the key/values.
WriteKeyValue ==
    /\ pc = "write_header"
    /\ Len(input) = 0
    /\ \E kv \in key_values :
          /\ stream' = stream \o WriteKeyValueLine(kv)
          /\ key_values' = key_values \ {kv}
    /\ UNCHANGED <<input, generic, pc, version, fields, required_fields, line_num,
                   read_result, image, nrrd, pixel, buffer, result>>

\* writer.rs 25: the empty line.
WriteBlank ==
    /\ pc = "write_header"
    /\ Len(input) = 0
    /\ key_values = {}
    /\ stream' = stream \o <<NL>>
    /\ pc' = "write_buffer"
    /\ UNCHANGED <<input, generic, version, fields, key_values, required_fields,
                   line_num, read_result, image, nrrd, pixel, buffer, result>>

\* writer.rs 28-30: the buffer, and Ok(()).
WriteBuffer ==
    /\ pc = "write_buffer"
    /\ stream' = stream \o nrrd.buffer
    /\ result' = Ok(<<>>)
    /\ pc' = "written"
    /\ UNCHANGED <<input, generic, version, fields, key_values, required_fields,
                   line_num, read_result, image, nrrd, pixel, buffer>>

NextWriter == WriteMagic \/ WriteField \/ WriteKeyValue \/ WriteBlank \/ WriteBuffer

SpecWriter == InitWriter /\ [][NextWriter]_vars

-----------------------------------------------------------------------------
(* An image written with write_nrrd and read back with read_nrrd *)

InitRoundTrip ==
    /\ image \in RecordImages \cup WriterImages
    /\ generic = [T |-> image.T, D |-> image.D]
    /\ input = <<>>
    /\ stream = <<>>
    /\ pc = "image"
    /\ version = 0
    /\ fields = {}
    /\ key_values = {}
    /\ required_fields = DefaultRequiredFields
    /\ line_num = 0
    /\ read_result = NoResult
    /\ nrrd = NoNrrd
    /\ pixel = NoPixel
    /\ buffer = <<>>
    /\ result = NoResult

\* write_nrrd(&nrrd, writer) is called on the record of the image, with a
\* writer that holds nothing yet.
CallWrite ==
    /\ pc = "encoded"
    /\ stream' = <<>>
    /\ input' = <<>>
    /\ key_values' = {}
    /\ pc' = "write_magic"
    /\ UNCHANGED <<generic, version, fields, required_fields, line_num, read_result,
                   image, nrrd, pixel, buffer, result>>

\* read_nrrd(reader) is called on the bytes written: `input` keeps them.
CallRead ==
    /\ pc = "written"
    /\ input' = stream
    /\ version' = 0
    /\ fields' = {}
    /\ key_values' = {}
    /\ required_fields' = DefaultRequiredFields
    /\ line_num' = 0
    /\ read_result' = NoResult
    /\ pc' = "magic"
    /\ UNCHANGED <<generic, stream, image, nrrd, pixel, buffer, result>>

\* The record of an image holds no key/value pair (nrrd/mod.rs 274), so the
\* key/value loop of write_nrrd runs no iteration here.
NextRoundTrip ==
    \/ Encode
    \/ CallWrite
    \/ WriteMagic
    \/ WriteField
    \/ WriteBlank
    \/ WriteBuffer
    \/ CallRead
    \/ ReadMagic
    \/ ReadHeaderLine

SpecRoundTrip == InitRoundTrip /\ [][NextRoundTrip]_vars

-----------------------------------------------------------------------------
(* Properties *)

\* The lines of a stream as read_header sees them, line ends removed.
RECURSIVE StreamLines(_)
StreamLines(s) ==
    IF Len(s) = 0 THEN <<>>
    ELSE <<remove_trailing_new_line(remove_trailing_new_line(ReadLine(s).line))>>
            \o StreamLines(ReadLine(s).rest)

\* The lines after the magic line: line n of this is line_num n.
BodyOf(s) == Tail(StreamLines(s))

HasValidMagic(s) == Len(StreamLines(s)) > 0 /\ try_read_magic(StreamLines(s)[1]).ok

\* A line that is not a comment and has the form of a field.
IsFieldLine(line) == ~StartsWith(line, <<35>>) /\ try_read_field(line).some

\* Line j of the body is a field line that repeats the identifier of an
\* earlier field line.
IsRepeat(body, j) ==
    /\ IsFieldLine(body[j])
    /\ \E i \in 1..(j - 1) :
          /\ IsFieldLine(body[i])
          /\ try_read_field(body[i]).v.identifier = try_read_field(body[j]).v.identifier

HasRepeat(body) == \E j \in 1..Len(body) : IsRepeat(body, j)

FirstRepeat(body) ==
    CHOOSE j \in 1..Len(body) : IsRepeat(body, j) /\ \A k \in 1..(j - 1) : ~IsRepeat(body, k)

ReadFinished == pc \in {"read_done", "done"}

\* C1: the example stream (NRRD0005, float, 2 x 2, little, raw, a blank line
\* and the 16 bytes of 1.0, 2.0, 3.0, 4.0) read as Image<f32, 2> gives Ok
\* with sizes [2, 2] and those four pixels in order.
C1_ExampleDecodes ==
    (pc = "done" /\ input = ExampleStream /\ generic = [T |-> "Float32", D |-> 2])
        => /\ result.ok
           /\ result.v.sizes = <<USizeOf(2), USizeOf(2)>>
           /\ result.v.buffer = <<1065353216, 1073741824, 1077936128, 1082130432>>

C3_DuplicateOnlyIfInserted ==
    [][LET line == remove_trailing_new_line(remove_trailing_new_line(ReadLine(stream).line))
           field == try_read_field(line)
       IN /\ (read_result.kind # "DuplicateField" /\ read_result'.kind = "DuplicateField")
                => \E f \in fields : f.identifier = read_result'.text
          /\ (/\ pc = "body"
              /\ IsFieldLine(line)
              /\ \A f \in fields : f.identifier # field.v.identifier
              /\ RequiredFieldsParse(required_fields, field.v).ok)
                => /\ pc' = "body"
                   /\ \E f \in fields' : f.identifier = field.v.identifier]_vars

\* C4: when validate gets as far as the endian check of a type that is not
\* Block (dimension, sizes and encoding present), it fails with "Missing
\* ENDIAN field" exactly when no endian was parsed and the type is wider than
\* one byte; otherwise it passes and the record's endian is the one parsed,
\* or Little.
C4_EndianCheck ==
    (/\ pc = "validated"
     /\ required_fields.dimension.some
     /\ required_fields.sizes.some
     /\ required_fields.encoding.some
     /\ required_fields.pixel_type.some
     /\ required_fields.pixel_type.v.tag # "Block")
        => LET missing == /\ ~required_fields.endian.some
                          /\ required_fields.pixel_type.v.tag \notin {"Int8", "UInt8"}
           IN /\ missing <=> read_result = Malformed("Missing ENDIAN field")
              /\ ~missing => /\ result.ok
                             /\ result.v.endian = IF required_fields.endian.some
                                                  THEN required_fields.endian.v
                                                  ELSE "Little"

\* The byte width of each scalar type.
ByteWidth(tag) ==
    CASE tag \in {"Int8", "UInt8"} -> 1
      [] tag \in {"Int16", "UInt16"} -> 2
      [] tag \in {"Int32", "UInt32", "Float32"} -> 4
      [] tag \in {"Int64", "UInt64", "Float64"} -> 8

\* Byte j of a value, byte 0 the least significant (two's complement).
ByteOf(v, j) ==
    IF j >= 4 THEN (IF v < 0 THEN 255 ELSE 0)
    ELSE (v \div (256 ^ j)) % 256

\* C5: to_bytes writes exactly size_of(T) bytes, most significant first for
\* Big and least significant first for Little, and from_bytes on a slice that
\* starts with those bytes returns the value, whatever follows them.
C5_CodecRoundTrip ==
    /\ pc \in {"from_bytes", "done"} =>
          /\ Len(buffer) = ByteWidth(pixel.T)
          /\ \A k \in 1..Len(buffer) :
                buffer[k] = IF pixel.endian = "Big"
                            THEN ByteOf(pixel.value, ByteWidth(pixel.T) - k)
                            ELSE ByteOf(pixel.value, k - 1)
    /\ pc = "done" => result = Ok(pixel.value)

\* C5 witness: a NaN of f32 written Big and read back from a longer slice.
C5_Witness ==
    /\ pc = "done"
    /\ pixel = [T |-> "Float32", value |-> 2143289344, endian |-> "Big"]
    /\ buffer = <<127, 192, 0, 0>>
    /\ Len(input) > Len(buffer)
    /\ result = Ok(2143289344)

\* C6: converting the record made from an image back at the image's own
\* <T, D> gives Ok with the image's sizes and its pixels in the same order.
C6_ImageRoundTrip ==
    (pc = "done" /\ generic = [T |-> image.T, D |-> image.D])
        => /\ result.ok
           /\ result.v.sizes = image.sizes
           /\ result.v.buffer = image.buffer

\* C7: try_from reports DimensionsDoNotMatch when the dimension differs from
\* D, else PixelTypesDoNotMatch when the type differs from T's, else
\* UnsupportedEncoding when the encoding is not Raw, and returns Ok exactly
\* when none of the three holds.
C7_ErrorOrder ==
    pc = "done" =>
        LET dim == nrrd.dimension # generic.D
            typ == nrrd.pixel_type # [tag |-> generic.T, block |-> 0]
            enc == nrrd.encoding.tag # "Raw"
        IN /\ dim => (~result.ok /\ result.kind = "DimensionsDoNotMatch")
           /\ (~dim /\ typ) => (~result.ok /\ result.kind = "PixelTypesDoNotMatch")
           /\ (~dim /\ ~typ /\ enc) => (~result.ok /\ result.kind = "UnsupportedEncoding")
           /\ result.ok <=> (~dim /\ ~typ /\ ~enc)

\* C7 witness: a record wrong in dimension, type and encoding at once has
\* been reported as DimensionsDoNotMatch.
C7_Witness ==
    /\ pc = "done"
    /\ nrrd.dimension # generic.D
    /\ nrrd.pixel_type # [tag |-> generic.T, block |-> 0]
    /\ nrrd.encoding.tag = "GZip"
    /\ result.kind = "DimensionsDoNotMatch"

\* C8: the record made from an image is Little, Raw, Nrrd5, without
\* key/values, of the image's dimension, sizes and type, with a buffer of
\* pixels_count * width bytes and exactly the fields type, dimension, sizes,
\* endian, encoding, whose descriptors say the same as the record.
C8_RecordOfImage ==
    pc \in {"encoded", "done"} =>
        /\ nrrd.endian = "Little"
        /\ nrrd.encoding = [tag |-> "Raw", other |-> <<>>]
        /\ nrrd.version = 5
        /\ nrrd.key_values = {}
        /\ nrrd.dimension = image.D
        /\ Len(nrrd.sizes) = Len(image.sizes)
        /\ \A i \in 1..Len(nrrd.sizes) : I32AsUSize(nrrd.sizes[i]) = image.sizes[i]
        /\ nrrd.pixel_type = [tag |-> image.T, block |-> 0]
        /\ Len(nrrd.buffer) = Len(image.buffer) * ByteWidth(image.T)
        /\ {f.identifier : f \in nrrd.fields}
              = {B("type"), B("dimension"), B("sizes"), B("endian"), B("encoding")}
        /\ Cardinality(nrrd.fields) = 5
        /\ \A f \in nrrd.fields :
              /\ f.identifier = B("endian") => f.descriptor = B("little")
              /\ f.identifier = B("encoding") => f.descriptor = B("raw")
              /\ f.identifier = B("dimension") => ParseI32(f.descriptor) = Some(nrrd.dimension)
              /\ f.identifier = B("sizes") =>
                    ParseAllSizes(SplitWhitespace(f.descriptor)) = Some(nrrd.sizes)
              /\ f.identifier = B("type") =>
                    f.descriptor = PixelTypeToString(nrrd.pixel_type)

\* C9: the example header followed by 15 payload bytes fails with
\* Malformed("Buffer size mismatch"), and no read returns Ok with a buffer
\* whose length is not product(sizes) * width.
C9_BufferSizeChecked ==
    /\ (ReadFinished /\ input = ShortStream)
          => (~read_result.ok /\ read_result.kind = "Malformed"
                /\ read_result.msg = "Buffer size mismatch")
    /\ (ReadFinished /\ read_result.ok)
          => "true" \in validate_buffer_size(read_result.v)

\* C10: whenever the accumulator holds a dimension and sizes, the sizes are
\* as many as the dimension, and so they are in every record validate lets
\* through.
C10_SizesMatchDimension ==
    /\ (required_fields.dimension.some /\ required_fields.sizes.some)
          => Len(required_fields.sizes.v) = required_fields.dimension.v
    /\ (pc = "validated" /\ result.ok) => Len(result.v.sizes) = result.v.dimension


\* The text of a field line and of a key/value line.
FieldLineText(f) == f.identifier \o <<58, 32>> \o f.descriptor \o <<10>>

KeyValueLineText(kv) == kv.key \o <<58, 61>> \o kv.value \o <<10>>

\* The place of a field among the priority fields, 3 for every other field.
PriorityRank(f) ==
    IF f.identifier = FieldNames.type THEN 0
    ELSE IF f.identifier = FieldNames.dimension THEN 1
    ELSE IF f.identifier = FieldNames.sizes THEN 2
    ELSE 3

RECURSIVE Orderings(_)
Orderings(set) ==
    IF set = {} THEN {<<>>}
    ELSE UNION {{<<x>> \o rest : rest \in Orderings(set \ {x})} : x \in set}

RECURSIVE ConcatAll(_)
ConcatAll(seqs) == IF Len(seqs) = 0 THEN <<>> ELSE Head(seqs) \o ConcatAll(Tail(seqs))

\* What follows in a written stream, from the field lines on: type,
\* dimension, sizes in that order, the other fields in any order, the
\* key/values in any order, one blank line, the buffer.
WrittenFromFields(n) ==
    {ConcatAll([i \in 1..Len(fs) |-> FieldLineText(fs[i])])
        \o ConcatAll([i \in 1..Len(kvs) |-> KeyValueLineText(kvs[i])])
        \o <<10>> \o n.buffer :
        fs \in {o \in Orderings(n.fields) :
                  \A i, j \in 1..Len(o) : i < j => PriorityRank(o[i]) <= PriorityRank(o[j])},
        kvs \in Orderings(n.key_values)}

IsPrefix(s, full) == Len(s) <= Len(full) /\ SubSeq(full, 1, Len(s)) = s

\* The line "NRRD0005".
MagicLineText == B("NRRD0005") \o <<10>>

\* C11, as stated: the stream write_nrrd produced is the field lines (type,
\* dimension, sizes first), the key/value lines, one blank line and the
\* buffer, and nothing else.
C11_StreamIsFieldsKeyValuesBlankBuffer ==
    pc = "written" => stream \in WrittenFromFields(nrrd)

\* C11, amended: the stream is the line NRRD0005 followed by the field lines
\* (type, dimension, sizes first, each when present, then every other field
\* once), the key/value lines, one blank line and the buffer; while it is
\* being written it is always a prefix of such a stream, so no field line
\* follows a key/value line or the blank line and nothing follows the buffer.
C11_WriteOrder ==
    LET expected == {MagicLineText \o full : full \in WrittenFromFields(nrrd)}
    IN /\ \E full \in expected : IsPrefix(stream, full)
       /\ pc = "written" => stream \in expected

\* C11 witness: a record with the five fields, a further field, two
\* key/values and a buffer has been written, the further field before
\* 'endian'.
C11_Witness ==
    /\ pc = "written"
    /\ Cardinality(nrrd.fields) = 6
    /\ Cardinality(nrrd.key_values) = 2
    /\ Len(nrrd.buffer) = 3
    /\ \E at \in 1..Len(stream) :
          /\ SubSeq(stream, at, at + 4) = <<115, 112, 97, 99, 101>>
          /\ SubSeq(stream, at + 12, at + 17) = FieldNames.endian

\* Descriptors of a dimension that is not a positive integer.
NotPositiveText == {B("0"), B("-1"), B("two")}

\* C12: the accumulator rejects with Malformed a dimension field whose
\* descriptor is non-numeric, 0 or negative, so the dimension it holds, and
\* the dimension of a record validate returns, is at least 1.
C12_DimensionPositive ==
    /\ (/\ pc \in {"parse", "done"}
        /\ input.identifier = FieldNames.dimension
        /\ input.descriptor \in NotPositiveText)
          => (~read_result.ok /\ read_result.kind = "Malformed")
    /\ required_fields.dimension.some => required_fields.dimension.v >= 1
    /\ (pc = "validated" /\ result.ok) => result.v.dimension >= 1

\* C13: when the line at which read_header stopped is empty, or the stream
\* had ended, the loop ended without an error for that line: what read_nrrd
\* returns is not the "Unexpected line" error.
C13_BlankLineEndsHeader ==
    (/\ ReadFinished
     /\ HasValidMagic(input)
     /\ line_num >= 1
     /\ \/ line_num > Len(BodyOf(input))
        \/ BodyOf(input)[line_num] = <<>>)
        => ~(read_result.kind = "Malformed" /\ read_result.msg = "Unexpected line")

\* The Malformed error of validate with the message given.
ValidateFails(message) ==
    ~read_result.ok /\ read_result.kind = "Malformed" /\ read_result.msg = message

\* C14: validate reports the first failing check in the order dimension,
\* sizes, type, then block size (absent, then not positive) for Block or the
\* endian check for the other types, then encoding, each with its own
\* message; it returns Ok only when none fails, a Block carrying the block
\* size.  When the endian check itself fails for a present endian is C4's
\* matter: here it fails for a wider type without endian and passes for a
\* one-byte type without endian.
C14_ValidateOrder ==
    pc = "validated" =>
        LET rf == required_fields
        IN IF ~rf.dimension.some THEN ValidateFails("Missing DIMENSION field")
           ELSE IF ~rf.sizes.some THEN ValidateFails("Missing SIZES field")
           ELSE IF ~rf.pixel_type.some THEN ValidateFails("Missing TYPE field")
           ELSE IF rf.pixel_type.v.tag = "Block"
           THEN IF ~rf.block_size.some THEN ValidateFails("Missing BLOCK SIZE field")
                ELSE IF rf.block_size.v <= 0 THEN ValidateFails("Invalid BLOCK SIZE value")
                ELSE IF ~rf.encoding.some THEN ValidateFails("Missing ENCODING field")
                ELSE /\ read_result.ok
                     /\ read_result.v.pixel_type.v = [tag |-> "Block", block |-> rf.block_size.v]
           ELSE /\ (~rf.endian.some /\ rf.pixel_type.v.tag \notin {"Int8", "UInt8"})
                      => ValidateFails("Missing ENDIAN field")
                /\ (~rf.endian.some /\ rf.pixel_type.v.tag \in {"Int8", "UInt8"})
                      => ~ValidateFails("Missing ENDIAN field")
                /\ ~ValidateFails("Missing ENDIAN field")
                      => IF ~rf.encoding.some THEN ValidateFails("Missing ENCODING field")
                         ELSE read_result.ok /\ read_result.v = rf

\* C14 witness: a float type with neither endian nor encoding has been
\* reported as Missing ENDIAN, the earlier of the two checks.
C14_Witness ==
    /\ pc = "validated"
    /\ required_fields.dimension.some
    /\ required_fields.sizes.some
    /\ required_fields.pixel_type = [some |-> TRUE, v |-> [tag |-> "Float32", block |-> 0]]
    /\ ~required_fields.endian.some
    /\ ~required_fields.encoding.some
    /\ ValidateFails("Missing ENDIAN field")

\* The sum over the axes of index[i] times the product of the sizes before
\* axis i, for sizes TLC can hold.
RECURSIVE StrideSum(_, _, _)
StrideSum(sizes, index, i) ==
    IF i > Len(index) THEN 0
    ELSE LET RECURSIVE Before(_)
             Before(j) == IF j >= i THEN 1 ELSE USizeAsI32(sizes[j]) * Before(j + 1)
         IN index[i] * Before(1) + StrideSum(sizes, index, i + 1)

\* C15: for every coordinate inside the image, the place get / get_mut
\* index is inside the buffer and is the stride sum; two coordinates never
\* share a place, and the places are all of 0 .. pixels_count - 1.
C15_OffsetBijection ==
    pc \in {"image", "encoded", "done"} =>
        LET inside == Coordinates(image)
            small == \A i \in 1..Len(image.sizes) : USizeIsSmall(image.sizes[i])
        IN /\ \A index \in inside :
                 /\ USizeIsSmall(Offset(image, index).v)
                 /\ USizeAsI32(Offset(image, index).v) < Len(image.buffer)
                 /\ \A at \in get_mut(image, index) : at.ok
                 /\ small => USizeAsI32(Offset(image, index).v)
                                = StrideSum(image.sizes, index, 1)
           /\ \A a, b \in inside : Offset(image, a).v = Offset(image, b).v => a = b
           /\ small => Cardinality(inside) = Len(image.buffer)

\* C16: read_nrrd on the bytes write_nrrd emitted for the record of an image
\* returns Ok with a record of the same version, dimension, sizes, pixel
\* type, encoding, endian and buffer.
C16_WriteReadRoundTrip ==
    (pc = "read_done" /\ image # NoImage)
        => /\ read_result.ok
           /\ read_result.v.version = NrrdFromImage(image).version
           /\ read_result.v.dimension = NrrdFromImage(image).dimension
           /\ read_result.v.sizes = NrrdFromImage(image).sizes
           /\ read_result.v.pixel_type = NrrdFromImage(image).pixel_type
           /\ read_result.v.encoding = NrrdFromImage(image).encoding
           /\ read_result.v.endian = NrrdFromImage(image).endian
           /\ read_result.v.buffer = NrrdFromImage(image).buffer

=============================================================================
